---- MODULE Spec2Model ----
(***************************************************************************)
(* The identity claims ledger of gear-dapps/identity (src/src/lib.rs,      *)
(* src/io/src/lib.rs) as a state machine.                                  *)
(*                                                                         *)
(* A 32-byte public key, a 64-byte signature and a 32-byte hash are        *)
(* modelled as small naturals; 0 stands for the all-zero array.  A         *)
(* BTreeMap is a function whose DOMAIN is its key set; Option<T> is a      *)
(* sequence of length 0 (None) or 1 (Some).                                *)
(*                                                                         *)
(* Each handler is an operator from the storage and the message's fields   *)
(* to a record [st, res, ev]: the storage after the call, the outcome      *)
(* ("ok" or the kind of panic) and the reply.  A panic aborts the message: *)
(* the storage is the one from before the call.  The outcomes name the     *)
(* panics of the source:                                                   *)
(*   "InvalidKey"    "Can not use a zero public key" / "Owner MUST be      *)
(*                   non-zero address"                                     *)
(*   "NoClaims"      "The user has no claims" / "No such public key"       *)
(*   "NoPiece"       "The user has not such claim with the provided        *)
(*                   piece_id" / "No such piece_id"                        *)
(*   "Unauthorized"  "You can not change this claim" / "You can not        *)
(*                   verify this claim"                                    *)
(* In every handler the panics precede the writes, and msg::reply of a     *)
(* small payload with value 0, sent once per message, does not fail.       *)
(*                                                                         *)
(* piece_counter is a u128; the model issues at most MaxPieces claims, so  *)
(* the counter stays far from 2^128 and `+= 1` never overflows.            *)
(***************************************************************************)
EXTENDS Integers, Sequences, FiniteSets, TLC

\* ---------------------------------------------------------------- bounds
MaxKey    == 3      \* public keys are 0..MaxKey
MaxSig    == 2      \* signatures are 0..MaxSig
MaxHash   == 2      \* hashes are 0..MaxHash
MaxPieces == 2      \* at most this many claims are issued

\* ------------------------------------------------------------- constants
ZERO_KEY       == 0
ZERO_SIGNATURE == 0
ZeroActorId    == 0
InitialPieceCounter == 1
DefaultPieceCounter == 0

PublicKey == 0..MaxKey
Signature == 0..MaxSig
Hash      == 0..MaxHash
PieceId   == 0..(MaxPieces + 1)

\* The messages the environment sends.  Issuers, subjects and verifiers are
\* drawn so that a claim about oneself (issuer = subject), a claim about
\* another key, a third-party verifier and every zero argument occur.
ActorIds      == {ZeroActorId, 1}
SubjectKeys   == {ZERO_KEY, 1, 2}
ValidatorKeys == {ZERO_KEY, 1, 2, 3}
VerifierKeys  == {ZERO_KEY, 1, 3}
VerifierSigs  == {ZERO_SIGNATURE, 1, 2}

IssueRequest(issuer, issuer_signature, subject, hashed_info, issuance_date) ==
    [issuer |-> issuer, issuer_signature |-> issuer_signature, subject |-> subject,
     hashed_info |-> hashed_info, issuance_date |-> issuance_date]

\* A claim of key 1 about itself, a claim of key 1 about key 2, and one
\* request for each argument that can be zero.
IssueRequests ==
    { IssueRequest(1, 1, 1, {}, 7),
      IssueRequest(1, 2, 2, {1, 2}, 9),
      IssueRequest(ZERO_KEY, 1, 1, {}, 7),
      IssueRequest(1, ZERO_SIGNATURE, 2, {1, 2}, 9),
      IssueRequest(1, 1, ZERO_KEY, {1}, 7) }

QueryKeys     == {1, 3}
QueryPieces   == {1, 2}

\* <<verifier, verifier_signature, subject, piece_id>> of the VerifyClaim
\* messages: on piece 1 every combination of the sets above, and key 2 as a
\* second third party with one signature; on piece 2 every combination that
\* has a zero signature or the first non-zero one.
VerifyRequests ==
    (VerifierKeys \X VerifierSigs \X SubjectKeys \X {1})
      \cup {<<2, 1, 1, 1>>}
      \cup (VerifierKeys \X {ZERO_SIGNATURE, 1} \X SubjectKeys \X {2})

VARIABLES
    IDENTITY,     \* static mut IDENTITY: Option<IdentityStorage>
    program,      \* the program as the host sees it: "created", "active", "failed"
    last,         \* the message processed last: [op, res, zero], zero telling
                  \* whether one of its keys or signatures was the zero array
    issued,       \* history: the piece_id of every ClaimIssued reply, in order
    issuedInfo,   \* history: <<subject, piece_id>> -> hashed_info given to IssueClaim
    repeat        \* history: [req, again]; after a successful ClaimValidationStatus
                  \* req is that message and again tells that the message before
                  \* it was the same one, also successful; after a successful
                  \* VerifyClaim again tells that the verifier had verified the
                  \* claim before
VARIABLE
    initOwner     \* history: <<owner_id>> of the init message that succeeded,
                  \* <<>> before it

vars == <<IDENTITY, program, last, issued, issuedInfo, repeat, initOwner>>

\* ------------------------------------------------------------- BTreeMap
EmptyMap == <<>>

MapInsert(m, k, v) == [x \in (DOMAIN m) \cup {k} |-> IF x = k THEN v ELSE m[x]]

EntryOrDefault(m, k) == IF k \in DOMAIN m THEN m ELSE MapInsert(m, k, EmptyMap)

\* The keys of a BTreeMap in ascending order, as keys().cloned().collect() yields them.
RECURSIVE SortedKeys(_)
SortedKeys(S) ==
    IF S = {} THEN <<>>
    ELSE LET least == CHOOSE x \in S : \A y \in S : x <= y
         IN  <<least>> \o SortedKeys(S \ {least})

\* ---------------------------------------------------------------- types
ClaimData(hashed_info, issuance_date, valid) ==
    [hashed_info |-> hashed_info, issuance_date |-> issuance_date, valid |-> valid]

Claim(issuer, issuer_signature, subject, verifiers, data) ==
    [issuer |-> issuer, issuer_signature |-> issuer_signature, subject |-> subject,
     verifiers |-> verifiers, data |-> data]

IdentityStorage(owner_id, user_claims, piece_counter) ==
    [owner_id |-> owner_id, user_claims |-> user_claims, piece_counter |-> piece_counter]

DefaultStorage == IdentityStorage(ZeroActorId, EmptyMap, DefaultPieceCounter)

NoReply == [type |-> "None"]

Ok(st, ev)   == [st |-> st, res |-> "ok", ev |-> ev]
Panic(st, why) == [st |-> st, res |-> why, ev |-> NoReply]

\* ------------------------------------------------------------- handlers
\* Each handler is preceded by the variants of it that the properties below
\* are required to tell apart from it.

\* issue_claim without `self.piece_counter += 1`.
issue_claim_no_increment(self, issuer, issuer_signature, subject, data) ==
    IF subject = ZERO_KEY \/ issuer_signature = ZERO_SIGNATURE \/ issuer = ZERO_KEY
    THEN Panic(self, "InvalidKey")
    ELSE LET entry  == EntryOrDefault(self.user_claims, subject)
             claims == [entry EXCEPT ![subject] =
                           MapInsert(@, self.piece_counter,
                                     Claim(issuer, issuer_signature, subject, EmptyMap, data))]
         IN  Ok([self EXCEPT !.user_claims = claims],
                [type |-> "ClaimIssued", issuer |-> issuer, subject |-> subject,
                 piece_id |-> self.piece_counter])

\* issue_claim replying `self.piece_counter` after the increment.
issue_claim_reply_next(self, issuer, issuer_signature, subject, data) ==
    IF subject = ZERO_KEY \/ issuer_signature = ZERO_SIGNATURE \/ issuer = ZERO_KEY
    THEN Panic(self, "InvalidKey")
    ELSE LET entry   == EntryOrDefault(self.user_claims, subject)
             claims  == [entry EXCEPT ![subject] =
                            MapInsert(@, self.piece_counter,
                                      Claim(issuer, issuer_signature, subject, EmptyMap, data))]
             counter == self.piece_counter + 1
         IN  Ok([self EXCEPT !.user_claims = claims, !.piece_counter = counter],
                [type |-> "ClaimIssued", issuer |-> issuer, subject |-> subject,
                 piece_id |-> counter])

\* issue_claim without the test of issuer_signature.
issue_claim_no_sig_check(self, issuer, issuer_signature, subject, data) ==
    IF subject = ZERO_KEY \/ issuer = ZERO_KEY
    THEN Panic(self, "InvalidKey")
    ELSE LET entry   == EntryOrDefault(self.user_claims, subject)
             claims  == [entry EXCEPT ![subject] =
                            MapInsert(@, self.piece_counter,
                                      Claim(issuer, issuer_signature, subject, EmptyMap, data))]
             counter == self.piece_counter + 1
         IN  Ok([self EXCEPT !.user_claims = claims, !.piece_counter = counter],
                [type |-> "ClaimIssued", issuer |-> issuer, subject |-> subject,
                 piece_id |-> counter - 1])

\* issue_claim with `user_claims.insert(subject, <map of the new claim alone>)`
\* in place of `entry(subject).or_default().insert(..)`.
issue_claim_replaces_subject_map(self, issuer, issuer_signature, subject, data) ==
    IF subject = ZERO_KEY \/ issuer_signature = ZERO_SIGNATURE \/ issuer = ZERO_KEY
    THEN Panic(self, "InvalidKey")
    ELSE LET claims  == MapInsert(self.user_claims, subject,
                            MapInsert(EmptyMap, self.piece_counter,
                                      Claim(issuer, issuer_signature, subject, EmptyMap, data)))
             counter == self.piece_counter + 1
         IN  Ok([self EXCEPT !.user_claims = claims, !.piece_counter = counter],
                [type |-> "ClaimIssued", issuer |-> issuer, subject |-> subject,
                 piece_id |-> counter - 1])

\* fn issue_claim(&mut self, issuer, issuer_signature, subject, data)
issue_claim(self, issuer, issuer_signature, subject, data) ==
    IF subject = ZERO_KEY \/ issuer_signature = ZERO_SIGNATURE \/ issuer = ZERO_KEY
    THEN Panic(self, "InvalidKey")
    ELSE LET entry   == EntryOrDefault(self.user_claims, subject)
             claims  == [entry EXCEPT ![subject] =
                            MapInsert(@, self.piece_counter,
                                      Claim(issuer, issuer_signature, subject, EmptyMap, data))]
             counter == self.piece_counter + 1
         IN  Ok([self EXCEPT !.user_claims = claims, !.piece_counter = counter],
                [type |-> "ClaimIssued", issuer |-> issuer, subject |-> subject,
                 piece_id |-> counter - 1])

\* validation_status with a parameter for the three places a variant differs
\* in: the authorization test, the write and the validator field of the reply.
validation_status_with(self, validator, subject, piece_id, status, refused(_), write(_), who(_)) ==
    IF validator = ZERO_KEY \/ subject = ZERO_KEY
    THEN Panic(self, "InvalidKey")
    ELSE IF subject \notin DOMAIN self.user_claims
    THEN Panic(self, "NoClaims")
    ELSE IF piece_id \notin DOMAIN self.user_claims[subject]
    THEN Panic(self, "NoPiece")
    ELSE LET data_piece == self.user_claims[subject][piece_id]
         IN  IF refused(data_piece)
             THEN Panic(self, "Unauthorized")
             ELSE LET entry  == EntryOrDefault(self.user_claims, subject)
                      claims == IF piece_id \in DOMAIN entry[subject]
                                THEN [entry EXCEPT ![subject][piece_id] = write(@)]
                                ELSE entry
                  IN  Ok([self EXCEPT !.user_claims = claims],
                         [type |-> "ClaimValidationChanged", validator |-> who(data_piece),
                          subject |-> subject, piece_id |-> piece_id, status |-> status])

\* validation_status refusing with `||` in place of `&&`.
validation_status_or(self, validator, subject, piece_id, status) ==
    LET refused(c) == c.subject # validator \/ c.issuer # validator
        write(c)   == [c EXCEPT !.data.valid = status]
        who(c)     == validator
    IN  validation_status_with(self, validator, subject, piece_id, status, refused, write, who)

\* validation_status replying the claim's issuer as the validator.
validation_status_reply_issuer(self, validator, subject, piece_id, status) ==
    LET refused(c) == c.subject # validator /\ c.issuer # validator
        write(c)   == [c EXCEPT !.data.valid = status]
        who(c)     == c.issuer
    IN  validation_status_with(self, validator, subject, piece_id, status, refused, write, who)

\* validation_status storing a fresh ClaimData that carries only the status.
validation_status_resets_data(self, validator, subject, piece_id, status) ==
    LET refused(c) == c.subject # validator /\ c.issuer # validator
        write(c)   == [c EXCEPT !.data = ClaimData({}, 0, status)]
        who(c)     == validator
    IN  validation_status_with(self, validator, subject, piece_id, status, refused, write, who)

\* validation_status whose and_modify closure leaves the claim as it was.
validation_status_no_write(self, validator, subject, piece_id, status) ==
    LET refused(c) == c.subject # validator /\ c.issuer # validator
        write(c)   == c
        who(c)     == validator
    IN  validation_status_with(self, validator, subject, piece_id, status, refused, write, who)

\* validation_status refusing a status the claim already has.
validation_status_rejects_same(self, validator, subject, piece_id, status) ==
    LET refused(c) == \/ c.subject # validator /\ c.issuer # validator
                      \/ c.data.valid = status
        write(c)   == [c EXCEPT !.data.valid = status]
        who(c)     == validator
    IN  validation_status_with(self, validator, subject, piece_id, status, refused, write, who)

\* fn validation_status(&mut self, validator, subject, piece_id, status)
validation_status(self, validator, subject, piece_id, status) ==
    IF validator = ZERO_KEY \/ subject = ZERO_KEY
    THEN Panic(self, "InvalidKey")
    ELSE IF subject \notin DOMAIN self.user_claims
    THEN Panic(self, "NoClaims")
    ELSE IF piece_id \notin DOMAIN self.user_claims[subject]
    THEN Panic(self, "NoPiece")
    ELSE LET data_piece == self.user_claims[subject][piece_id]
         IN  IF data_piece.subject # validator /\ data_piece.issuer # validator
             THEN Panic(self, "Unauthorized")
             ELSE LET entry  == EntryOrDefault(self.user_claims, subject)
                      claims == IF piece_id \in DOMAIN entry[subject]
                                THEN [entry EXCEPT ![subject][piece_id].data.valid = status]
                                ELSE entry
                  IN  Ok([self EXCEPT !.user_claims = claims],
                         [type |-> "ClaimValidationChanged", validator |-> validator,
                          subject |-> subject, piece_id |-> piece_id, status |-> status])

\* verify_claim refusing with `&&` in place of `||`.
verify_claim_and(self, verifier, verifier_signature, subject, piece_id) ==
    IF verifier = ZERO_KEY \/ subject = ZERO_KEY \/ verifier_signature = ZERO_SIGNATURE
    THEN Panic(self, "InvalidKey")
    ELSE IF subject \notin DOMAIN self.user_claims
    THEN Panic(self, "NoClaims")
    ELSE IF piece_id \notin DOMAIN self.user_claims[subject]
    THEN Panic(self, "NoPiece")
    ELSE LET piece == self.user_claims[subject][piece_id]
         IN  IF piece.issuer = verifier /\ piece.subject = verifier
             THEN Panic(self, "Unauthorized")
             ELSE Ok([self EXCEPT !.user_claims[subject][piece_id].verifiers =
                         MapInsert(@, verifier, verifier_signature)],
                     [type |-> "VerifiedClaim", verifier |-> verifier,
                      subject |-> subject, piece_id |-> piece_id])

\* verify_claim with a parameter for its write to the claim.
verify_claim_with(self, verifier, verifier_signature, subject, piece_id, write(_)) ==
    IF verifier = ZERO_KEY \/ subject = ZERO_KEY \/ verifier_signature = ZERO_SIGNATURE
    THEN Panic(self, "InvalidKey")
    ELSE IF subject \notin DOMAIN self.user_claims
    THEN Panic(self, "NoClaims")
    ELSE IF piece_id \notin DOMAIN self.user_claims[subject]
    THEN Panic(self, "NoPiece")
    ELSE LET piece == self.user_claims[subject][piece_id]
         IN  IF piece.issuer = verifier \/ piece.subject = verifier
             THEN Panic(self, "Unauthorized")
             ELSE Ok([self EXCEPT !.user_claims[subject][piece_id] = write(@)],
                     [type |-> "VerifiedClaim", verifier |-> verifier,
                      subject |-> subject, piece_id |-> piece_id])

\* verify_claim with `verifiers.entry(verifier).or_insert(verifier_signature)`:
\* the first signature of a verifier is kept.
verify_claim_keep_first(self, verifier, verifier_signature, subject, piece_id) ==
    LET write(c) == IF verifier \in DOMAIN c.verifiers THEN c
                    ELSE [c EXCEPT !.verifiers = MapInsert(@, verifier, verifier_signature)]
    IN  verify_claim_with(self, verifier, verifier_signature, subject, piece_id, write)

\* verify_claim that also marks the verified claim valid.
verify_claim_sets_valid(self, verifier, verifier_signature, subject, piece_id) ==
    LET write(c) == [c EXCEPT !.verifiers = MapInsert(@, verifier, verifier_signature),
                              !.data.valid = TRUE]
    IN  verify_claim_with(self, verifier, verifier_signature, subject, piece_id, write)

\* verify_claim looking the claim up before it tests for zero arguments.
verify_claim_lookup_first(self, verifier, verifier_signature, subject, piece_id) ==
    IF subject \notin DOMAIN self.user_claims
    THEN Panic(self, "NoClaims")
    ELSE IF piece_id \notin DOMAIN self.user_claims[subject]
    THEN Panic(self, "NoPiece")
    ELSE IF verifier = ZERO_KEY \/ subject = ZERO_KEY \/ verifier_signature = ZERO_SIGNATURE
    THEN Panic(self, "InvalidKey")
    ELSE LET write(c) == [c EXCEPT !.verifiers = MapInsert(@, verifier, verifier_signature)]
         IN  verify_claim_with(self, verifier, verifier_signature, subject, piece_id, write)

\* fn verify_claim(&mut self, verifier, verifier_signature, subject, piece_id)
verify_claim(self, verifier, verifier_signature, subject, piece_id) ==
    IF verifier = ZERO_KEY \/ subject = ZERO_KEY \/ verifier_signature = ZERO_SIGNATURE
    THEN Panic(self, "InvalidKey")
    ELSE IF subject \notin DOMAIN self.user_claims
    THEN Panic(self, "NoClaims")
    ELSE IF piece_id \notin DOMAIN self.user_claims[subject]
    THEN Panic(self, "NoPiece")
    ELSE LET piece == self.user_claims[subject][piece_id]
         IN  IF piece.issuer = verifier \/ piece.subject = verifier
             THEN Panic(self, "Unauthorized")
             ELSE LET entry  == EntryOrDefault(self.user_claims, subject)
                      claims == IF piece_id \in DOMAIN entry[subject]
                                THEN [entry EXCEPT ![subject][piece_id].verifiers =
                                         MapInsert(@, verifier, verifier_signature)]
                                ELSE entry
                  IN  Ok([self EXCEPT !.user_claims = claims],
                         [type |-> "VerifiedClaim", verifier |-> verifier,
                          subject |-> subject, piece_id |-> piece_id])

\* fn check_claim(&mut self, subject, piece_id, hash)
check_claim(self, subject, piece_id, hash) ==
    IF subject \notin DOMAIN self.user_claims
    THEN Panic(self, "NoClaims")
    ELSE IF piece_id \notin DOMAIN self.user_claims[subject]
    THEN Panic(self, "NoPiece")
    ELSE LET status == hash \in self.user_claims[subject][piece_id].data.hashed_info
         IN  Ok(self, [type |-> "CheckedClaim", subject |-> subject,
                       piece_id |-> piece_id, status |-> status])

\* init() leaving piece_counter at its Default.
init_default_counter(cell, owner_id) ==
    IF owner_id = ZeroActorId
    THEN [cell |-> cell, res |-> "InvalidKey"]
    ELSE [cell |-> <<IdentityStorage(owner_id, EmptyMap, DefaultPieceCounter)>>, res |-> "ok"]

\* init(): the storage cell after the call and the outcome.
init(cell, owner_id) ==
    IF owner_id = ZeroActorId
    THEN [cell |-> cell, res |-> "InvalidKey"]
    ELSE [cell |-> <<IdentityStorage(owner_id, EmptyMap, InitialPieceCounter)>>, res |-> "ok"]

\* IDENTITY.get_or_insert(Default::default())
GetOrInsertDefault(cell) == IF Len(cell) = 0 THEN <<DefaultStorage>> ELSE cell

\* meta_state answering a query on an absent claim with a default value
\* (false, 0, no verifiers) in place of a panic.
meta_state_defaults(self, q) ==
    LET present == /\ q.pkey \in DOMAIN self.user_claims
                   /\ q.piece_id \in DOMAIN self.user_claims[q.pkey]
        claim   == IF present THEN self.user_claims[q.pkey][q.piece_id]
                   ELSE Claim(ZERO_KEY, ZERO_SIGNATURE, ZERO_KEY, EmptyMap,
                              ClaimData({}, 0, FALSE))
    IN  IF q.type = "UserClaims"
        THEN Ok(self, [type |-> "UserClaims",
                       claims |-> IF q.pkey \in DOMAIN self.user_claims
                                  THEN self.user_claims[q.pkey] ELSE EmptyMap])
        ELSE IF q.type = "Claim"
        THEN Ok([self EXCEPT !.user_claims = EntryOrDefault(self.user_claims, q.pkey)],
                [type |-> "Claim", claim |-> IF present THEN <<claim>> ELSE <<>>])
        ELSE IF q.type = "ValidationStatus"
        THEN Ok(self, [type |-> "ValidationStatus", valid |-> claim.data.valid])
        ELSE IF q.type = "Date"
        THEN Ok(self, [type |-> "Date", date |-> claim.data.issuance_date])
        ELSE Ok(self, [type |-> "Verifiers",
                       verifiers |-> SortedKeys(DOMAIN claim.verifiers)])

\* meta_state(): [st, res, ev] for the query q = [type, pkey, piece_id].
meta_state(self, q) ==
    IF q.type = "UserClaims"
    THEN Ok(self, [type |-> "UserClaims",
                   claims |-> IF q.pkey \in DOMAIN self.user_claims
                              THEN self.user_claims[q.pkey] ELSE EmptyMap])
    ELSE IF q.type = "Claim"
    THEN LET entry == EntryOrDefault(self.user_claims, q.pkey)
         IN  Ok([self EXCEPT !.user_claims = entry],
                [type |-> "Claim",
                 claim |-> IF q.piece_id \in DOMAIN entry[q.pkey]
                           THEN <<entry[q.pkey][q.piece_id]>> ELSE <<>>])
    ELSE IF q.pkey \notin DOMAIN self.user_claims
    THEN Panic(self, "NoClaims")
    ELSE IF q.piece_id \notin DOMAIN self.user_claims[q.pkey]
    THEN Panic(self, "NoPiece")
    ELSE LET claim == self.user_claims[q.pkey][q.piece_id]
         IN  IF q.type = "ValidationStatus"
             THEN Ok(self, [type |-> "ValidationStatus", valid |-> claim.data.valid])
             ELSE IF q.type = "Date"
             THEN Ok(self, [type |-> "Date", date |-> claim.data.issuance_date])
             ELSE Ok(self, [type |-> "Verifiers",
                            verifiers |-> SortedKeys(DOMAIN claim.verifiers)])

Query(type, pkey, piece_id) == [type |-> type, pkey |-> pkey, piece_id |-> piece_id]

\* -------------------------------------------------------------- actions
NoRepeat == [req |-> <<>>, again |-> FALSE]

Init ==
    /\ IDENTITY = <<>>
    /\ program = "created"
    /\ last = [op |-> "none", res |-> "ok", zero |-> FALSE]
    /\ issued = <<>>
    /\ issuedInfo = EmptyMap
    /\ repeat = NoRepeat
    /\ initOwner = <<>>

\* InitMessage with a host that goes on delivering messages to a program
\* whose init() panicked.
InitMessageFailedInitStaysLive ==
    /\ program = "created"
    /\ \E owner_id \in ActorIds :
         LET r == init(IDENTITY, owner_id)
         IN  /\ IDENTITY' = r.cell
             /\ program' = "active"
             /\ initOwner' = IF r.res = "ok" THEN <<owner_id>> ELSE initOwner
             /\ last' = [op |-> "init", res |-> r.res, zero |-> owner_id = ZeroActorId]
    /\ repeat' = NoRepeat
    /\ UNCHANGED <<issued, issuedInfo>>

\* The first message a program receives is its init message; a panic in
\* init() leaves the program uninitialised and it processes nothing more.
InitMessage ==
    /\ program = "created"
    /\ \E owner_id \in ActorIds :
         LET r == init(IDENTITY, owner_id)
         IN  /\ IDENTITY' = r.cell
             /\ program' = IF r.res = "ok" THEN "active" ELSE "failed"
             /\ initOwner' = IF r.res = "ok" THEN <<owner_id>> ELSE initOwner
             /\ last' = [op |-> "init", res |-> r.res, zero |-> owner_id = ZeroActorId]
    /\ repeat' = NoRepeat
    /\ UNCHANGED <<issued, issuedInfo>>

\* main(): one IdentityAction message, processed to completion.
Handled(op, r, zero) ==
    /\ IDENTITY' = <<r.st>>
    /\ last' = [op |-> op, res |-> r.res, zero |-> zero]
    /\ UNCHANGED <<program, initOwner>>

IssueClaim ==
    /\ program = "active"
    /\ GetOrInsertDefault(IDENTITY)[1].piece_counter <= MaxPieces
    /\ \E m \in IssueRequests :
         LET data == ClaimData(m.hashed_info, m.issuance_date, FALSE)
             r == issue_claim(GetOrInsertDefault(IDENTITY)[1],
                              m.issuer, m.issuer_signature, m.subject, data)
         IN  /\ Handled("IssueClaim", r,
                        ZERO_KEY \in {m.issuer, m.subject}
                          \/ m.issuer_signature = ZERO_SIGNATURE)
             /\ issued' = IF r.res = "ok" THEN Append(issued, r.ev.piece_id) ELSE issued
             /\ issuedInfo' = IF r.res = "ok"
                              THEN MapInsert(issuedInfo, <<m.subject, r.ev.piece_id>>,
                                             m.hashed_info)
                              ELSE issuedInfo
    /\ repeat' = NoRepeat

ClaimValidationStatus ==
    /\ program = "active"
    /\ \E validator \in ValidatorKeys, subject \in SubjectKeys, piece_id \in QueryPieces,
          status \in BOOLEAN :
         LET r   == validation_status(GetOrInsertDefault(IDENTITY)[1],
                                      validator, subject, piece_id, status)
             req == <<validator, subject, piece_id, status>>
         IN  /\ Handled("ClaimValidationStatus", r, ZERO_KEY \in {validator, subject})
             /\ repeat' = IF r.res = "ok"
                          THEN [req |-> req, again |-> repeat.req = req]
                          ELSE NoRepeat
    /\ UNCHANGED <<issued, issuedInfo>>

VerifyClaim ==
    /\ program = "active"
    /\ \E request \in VerifyRequests :
         LET verifier == request[1]
             verifier_signature == request[2]
             subject == request[3]
             piece_id == request[4]
             self == GetOrInsertDefault(IDENTITY)[1]
             r    == verify_claim(self, verifier, verifier_signature, subject, piece_id)
         IN  /\ Handled("VerifyClaim", r,
                        ZERO_KEY \in {verifier, subject}
                          \/ verifier_signature = ZERO_SIGNATURE)
             /\ repeat' = IF r.res = "ok"
                          THEN [req |-> <<>>,
                                again |-> verifier \in
                                    DOMAIN self.user_claims[subject][piece_id].verifiers]
                          ELSE NoRepeat
    /\ UNCHANGED <<issued, issuedInfo>>

CheckClaim ==
    /\ program = "active"
    /\ \E subject \in SubjectKeys, piece_id \in QueryPieces, hash \in Hash :
         Handled("CheckClaim",
                 check_claim(GetOrInsertDefault(IDENTITY)[1], subject, piece_id, hash),
                 subject = ZERO_KEY)
    /\ repeat' = NoRepeat
    /\ UNCHANGED <<issued, issuedInfo>>

QueryTypes == {"UserClaims", "Claim", "Verifiers", "ValidationStatus", "Date"}

MetaState ==
    /\ program = "active"
    /\ \E type \in QueryTypes, pkey \in QueryKeys, piece_id \in QueryPieces :
         Handled(type, meta_state(GetOrInsertDefault(IDENTITY)[1],
                                  Query(type, pkey, piece_id)),
                 pkey = ZERO_KEY)
    /\ repeat' = NoRepeat
    /\ UNCHANGED <<issued, issuedInfo>>

Next ==
    \/ InitMessage
    \/ IssueClaim
    \/ ClaimValidationStatus
    \/ VerifyClaim
    \/ CheckClaim
    \/ MetaState

Spec == Init /\ [][Next]_vars

\* --------------------------------------------- views used by the claims
Active == program = "active"

\* The ledger of an active program.
ST == IDENTITY[1]

\* The <<subject, piece_id>> pairs under which a claim is stored.
Stored(st) ==
    UNION { {<<subject, piece_id>> : piece_id \in DOMAIN st.user_claims[subject]} :
            subject \in DOMAIN st.user_claims }

ClaimAt(st, subject, piece_id) == st.user_claims[subject][piece_id]

NextPieceId == IF Len(IDENTITY) = 0 THEN 0 ELSE IDENTITY[1].piece_counter

NonZeroKeys == PublicKey \ {ZERO_KEY}
NonZeroSigs == Signature \ {ZERO_SIGNATURE}

HandleOps == {"IssueClaim", "ClaimValidationStatus", "VerifyClaim", "CheckClaim"}
NotFound  == {"NoClaims", "NoPiece"}
Failures  == {"InvalidKey", "Unauthorized"} \cup NotFound

\* Number of occurrences of x in the sequence s.
Count(s, x) == Cardinality({i \in 1..Len(s) : s[i] = x})

\* The ClaimData values tried as the data argument of IssueClaim.
DataArgs == {ClaimData({}, 7, FALSE), ClaimData({1, 2}, 9, TRUE)}

\* ---------------------------------------------------------------- C1
\* C1: the piece ids replied by successive successful IssueClaim calls are
\* strictly increasing, piece_counter never decreases, and every piece id
\* replied or stored is strictly less than piece_counter.
MonotonicIds ==
    [][ /\ NextPieceId' >= NextPieceId
        /\ \A i \in 1..Len(issued') : issued'[i] < NextPieceId'
        /\ \A i \in 1..Len(issued'), j \in 1..Len(issued') : i < j => issued'[i] < issued'[j]
        /\ Len(IDENTITY') = 1 =>
             \A sp \in Stored(IDENTITY'[1]) : sp[2] < NextPieceId' ]_vars

\* Two claims issued, then a rejected message.
MonotonicIdsWitness ==
    /\ Len(issued) = 2
    /\ last = [op |-> "VerifyClaim", res |-> "Unauthorized", zero |-> FALSE]

\* ---------------------------------------------------------------- C2
\* C2: an IssueClaim, ClaimValidationStatus, VerifyClaim or CheckClaim
\* message with a zero public key or a zero signature among its arguments
\* panics with the zero-key message and leaves user_claims and
\* piece_counter as they were.
ZeroKeyRejected ==
    [][ (last'.op \in HandleOps /\ last'.zero) =>
          (last'.res = "InvalidKey" /\ IDENTITY' = IDENTITY) ]_vars

\* ---------------------------------------------------------------- C3
\* C3: on a stored claim, ClaimValidationStatus by a non-zero validator
\* succeeds exactly when the validator is the claim's issuer or its subject;
\* otherwise it panics as unauthorized and data.valid stays as it was.
StatusChangeAuthorized ==
    Active =>
      \A sp \in Stored(ST), validator \in NonZeroKeys, status \in BOOLEAN :
        LET claim == ClaimAt(ST, sp[1], sp[2])
            may   == validator = claim.issuer \/ validator = sp[1]
            r     == validation_status(ST, validator, sp[1], sp[2], status)
        IN  /\ r.res = "ok" <=> may
            /\ ~may => /\ r.res = "Unauthorized"
                       /\ ClaimAt(r.st, sp[1], sp[2]).data.valid = claim.data.valid

\* A claim whose issuer is not its subject is stored and a status change
\* was just refused.
StatusChangeAuthorizedWitness ==
    /\ Active
    /\ last = [op |-> "ClaimValidationStatus", res |-> "Unauthorized", zero |-> FALSE]
    /\ \E sp \in Stored(ST) : ClaimAt(ST, sp[1], sp[2]).issuer # sp[1]

\* ---------------------------------------------------------------- C4
\* C4: on a stored claim, VerifyClaim by a non-zero verifier with a non-zero
\* signature panics as unauthorized when the verifier is the claim's issuer
\* or subject, and otherwise succeeds and stores the verifier.
SelfVerificationRejected ==
    Active =>
      \A sp \in Stored(ST), verifier \in NonZeroKeys, sig \in NonZeroSigs :
        LET claim == ClaimAt(ST, sp[1], sp[2])
            self  == verifier = claim.issuer \/ verifier = sp[1]
            r     == verify_claim(ST, verifier, sig, sp[1], sp[2])
        IN  IF self
            THEN r.res = "Unauthorized"
            ELSE /\ r.res = "ok"
                 /\ verifier \in DOMAIN ClaimAt(r.st, sp[1], sp[2]).verifiers
                 /\ ClaimAt(r.st, sp[1], sp[2]).verifiers[verifier] = sig

\* A verification was just accepted and its verifier is stored.
SelfVerificationRejectedWitness ==
    /\ Active
    /\ last = [op |-> "VerifyClaim", res |-> "ok", zero |-> FALSE]
    /\ \E sp \in Stored(ST) : 3 \in DOMAIN ClaimAt(ST, sp[1], sp[2]).verifiers

\* ---------------------------------------------------------------- C5
\* C5: in every state, each handle message either succeeds with the one
\* reply of its kind, carrying the message's own arguments, or panics with
\* one of the three failure kinds, no reply and the storage exactly as it
\* was before the call; and no failed message changes the storage.
EveryCallAtomic ==
    Active =>
      LET stored == Stored(ST) IN
      /\ \A issuer \in PublicKey, sig \in Signature, subject \in PublicKey, data \in DataArgs :
           LET r == issue_claim(ST, issuer, sig, subject, data)
           IN  \/ /\ r.res = "ok"
                  /\ r.ev = [type |-> "ClaimIssued", issuer |-> issuer,
                             subject |-> subject, piece_id |-> r.ev.piece_id]
                  /\ Stored(r.st) = stored \cup {<<subject, r.ev.piece_id>>}
                  /\ <<subject, r.ev.piece_id>> \notin stored
               \/ /\ r.res \in Failures /\ r.ev = NoReply /\ r.st = ST
      /\ \A validator \in PublicKey, subject \in PublicKey, piece_id \in PieceId,
            status \in BOOLEAN :
           LET r == validation_status(ST, validator, subject, piece_id, status)
           IN  \/ /\ r.res = "ok"
                  /\ r.ev = [type |-> "ClaimValidationChanged", validator |-> validator,
                             subject |-> subject, piece_id |-> piece_id, status |-> status]
                  /\ ClaimAt(r.st, subject, piece_id).data.valid = status
               \/ /\ r.res \in Failures /\ r.ev = NoReply /\ r.st = ST
      /\ \A verifier \in PublicKey, sig \in Signature, subject \in PublicKey,
            piece_id \in PieceId :
           LET r == verify_claim(ST, verifier, sig, subject, piece_id)
           IN  \/ /\ r.res = "ok"
                  /\ r.ev = [type |-> "VerifiedClaim", verifier |-> verifier,
                             subject |-> subject, piece_id |-> piece_id]
                  /\ verifier \in DOMAIN ClaimAt(r.st, subject, piece_id).verifiers
               \/ /\ r.res \in Failures /\ r.ev = NoReply /\ r.st = ST
      /\ \A subject \in PublicKey, piece_id \in PieceId, hash \in Hash :
           LET r == check_claim(ST, subject, piece_id, hash)
           IN  \/ /\ r.res = "ok"
                  /\ r.ev = [type |-> "CheckedClaim", subject |-> subject,
                             piece_id |-> piece_id, status |-> r.ev.status]
                  /\ r.st = ST
               \/ /\ r.res \in Failures /\ r.ev = NoReply /\ r.st = ST

FailedCallChangesNothing ==
    (last'.op \in HandleOps /\ last'.res # "ok") =>
        (last'.res \in Failures /\ IDENTITY' = IDENTITY)

AllOrNothing == []EveryCallAtomic /\ [][FailedCallChangesNothing]_vars

\* A status change was refused on a ledger that holds a verified claim.
AllOrNothingWitness ==
    /\ Active
    /\ last = [op |-> "ClaimValidationStatus", res |-> "Unauthorized", zero |-> FALSE]
    /\ \E sp \in Stored(ST) : DOMAIN ClaimAt(ST, sp[1], sp[2]).verifiers # {}

\* ---------------------------------------------------------------- C6
\* C6: for every stored claim and every hash, CheckClaim succeeds and
\* replies CheckedClaim with status true exactly when the hash is in the
\* hashed_info the claim was issued with, whatever status changes and
\* verifications the claim has received since.
HashMembership ==
    Active =>
      \A sp \in Stored(ST), hash \in Hash :
        LET r == check_claim(ST, sp[1], sp[2], hash)
        IN  /\ sp \in DOMAIN issuedInfo
            /\ r.res = "ok"
            /\ r.ev = [type |-> "CheckedClaim", subject |-> sp[1], piece_id |-> sp[2],
                       status |-> hash \in issuedInfo[sp]]

\* CheckClaim was just answered on a ledger holding a claim issued with
\* {1, 2} that has since been validated and verified.
HashMembershipWitness ==
    /\ Active
    /\ last = [op |-> "CheckClaim", res |-> "ok", zero |-> FALSE]
    /\ \E sp \in Stored(ST) :
         /\ issuedInfo[sp] = {1, 2}
         /\ ClaimAt(ST, sp[1], sp[2]).data.valid
         /\ DOMAIN ClaimAt(ST, sp[1], sp[2]).verifiers # {}

\* ---------------------------------------------------------------- C7
\* C7: after a successful ClaimValidationStatus with status st the
\* ValidationStatus query replies st, and its reply changes only by a
\* successful ClaimValidationStatus on that claim; after a successful
\* VerifyClaim by V the Verifiers query lists V exactly once, also when V
\* had verified the claim before.
QueryReflectsMutation ==
    Active =>
      /\ \A sp \in Stored(ST), validator \in NonZeroKeys, status \in BOOLEAN :
           LET r == validation_status(ST, validator, sp[1], sp[2], status)
               q == meta_state(r.st, Query("ValidationStatus", sp[1], sp[2]))
           IN  r.res = "ok" => (q.res = "ok" /\ q.ev.valid = status)
      /\ \A sp \in Stored(ST), verifier \in NonZeroKeys, sig \in NonZeroSigs :
           LET r == verify_claim(ST, verifier, sig, sp[1], sp[2])
               q == meta_state(r.st, Query("Verifiers", sp[1], sp[2]))
           IN  r.res = "ok" => (q.res = "ok" /\ Count(q.ev.verifiers, verifier) = 1)

StatusChangesOnlyByStatusChange ==
    (Active /\ IDENTITY' # IDENTITY) =>
      \A sp \in Stored(ST) :
        LET before == meta_state(ST, Query("ValidationStatus", sp[1], sp[2])).ev.valid
            after  == meta_state(IDENTITY'[1], Query("ValidationStatus", sp[1], sp[2]))
        IN  /\ after.res = "ok"
            /\ after.ev.valid # before =>
                 /\ last'.op = "ClaimValidationStatus" /\ last'.res = "ok"
                 /\ \E validator \in NonZeroKeys :
                      LET r == validation_status(ST, validator, sp[1], sp[2], after.ev.valid)
                      IN  r.res = "ok" /\ IDENTITY' = <<r.st>>

QueryConsistency == []QueryReflectsMutation /\ [][StatusChangesOnlyByStatusChange]_vars

\* The Verifiers query was just answered for a claim that was validated
\* and then verified twice by key 3 (its second signature is stored).
QueryConsistencyWitness ==
    /\ Active
    /\ last = [op |-> "Verifiers", res |-> "ok", zero |-> FALSE]
    /\ (1 \in DOMAIN ST.user_claims) /\ (1 \in DOMAIN ST.user_claims[1])
    /\ ClaimAt(ST, 1, 1).data.valid
    /\ ClaimAt(ST, 1, 1).verifiers = MapInsert(EmptyMap, 3, 2)
    /\ meta_state(ST, Query("Verifiers", 1, 1)).ev.verifiers = <<3>>

\* ---------------------------------------------------------------- C8
\* C8: a query (UserClaims, Claim, Verifiers, ValidationStatus, Date), on a
\* present or an absent key, leaves user_claims with its set of subject
\* keys, piece_counter and owner_id exactly as they were.
QueriesReadOnly ==
    [][ last'.op \in QueryTypes => IDENTITY' = IDENTITY ]_vars

\* ---------------------------------------------------------------- C9
\* C9: init with a zero owner panics and creates no ledger; init with a
\* non-zero owner creates a ledger with that owner, no claims and
\* piece_counter at the one starting value, and every ledger that messages
\* are processed on started from that value.
InitContract ==
    /\ \A owner_id \in PublicKey :
         LET r == init(IDENTITY, owner_id)
         IN  program = "created" =>
               IF owner_id = ZeroActorId
               THEN r.res = "InvalidKey" /\ r.cell = <<>>
               ELSE /\ r.res = "ok"
                    /\ r.cell = <<[owner_id |-> owner_id, user_claims |-> EmptyMap,
                                   piece_counter |-> InitialPieceCounter]>>
    /\ program = "failed" => (IDENTITY = <<>> /\ last.op = "init" /\ last.zero)
    /\ program = "active" =>
         /\ Len(IDENTITY) = 1
         /\ ST.owner_id # ZeroActorId
         /\ ST.piece_counter - Len(issued) = InitialPieceCounter
         /\ last.op = "init" => ST.user_claims = EmptyMap
    /\ last.op \in HandleOps \cup QueryTypes => program = "active"

\* A claim was issued on the ledger that init created for owner 1.
InitContractWitness ==
    /\ Active
    /\ ST.owner_id = 1
    /\ last = [op |-> "IssueClaim", res |-> "ok", zero |-> FALSE]
    /\ issued = <<InitialPieceCounter>>

\* --------------------------------------------------------------- C10
\* C10: on a fresh ledger IssueClaim(I, sig, S, {hashed_info: {}, valid:
\* false}) replies ClaimIssued{I, S, p} with p the piece_counter from before
\* the call; then ClaimValidationStatus(S, S, p, true) succeeds and
\* ValidationStatus(S, p) is true; then VerifyClaim(V, sig2, S, p) with V
\* neither I nor S succeeds and Verifiers(S, p) is exactly [V].
Fresh == Active /\ ST.user_claims = EmptyMap /\ issued = <<>>

EndToEnd ==
    Fresh =>
      \A I \in NonZeroKeys, S \in NonZeroKeys, sig \in NonZeroSigs, sig2 \in NonZeroSigs :
       \A V \in NonZeroKeys \ {I, S} :
        LET p  == ST.piece_counter
            r1 == issue_claim(ST, I, sig, S, ClaimData({}, 7, FALSE))
            r2 == validation_status(r1.st, S, S, p, TRUE)
            q2 == meta_state(r2.st, Query("ValidationStatus", S, p))
            r3 == verify_claim(q2.st, V, sig2, S, p)
            q3 == meta_state(r3.st, Query("Verifiers", S, p))
        IN  /\ p = InitialPieceCounter
            /\ r1.res = "ok"
            /\ r1.ev = [type |-> "ClaimIssued", issuer |-> I, subject |-> S, piece_id |-> p]
            /\ r2.res = "ok"
            /\ q2.res = "ok" /\ q2.ev.valid = TRUE
            /\ r3.res = "ok"
            /\ q3.res = "ok" /\ q3.ev.verifiers = <<V>>

\* The scenario has run with I = S = 1 and V = 3: one claim, issued with
\* no hashes under the starting piece id, now valid and verified by 3, and
\* the Verifiers query was just answered.
EndToEndWitness ==
    /\ Active
    /\ issued = <<InitialPieceCounter>>
    /\ last = [op |-> "Verifiers", res |-> "ok", zero |-> FALSE]
    /\ Stored(ST) = {<<1, InitialPieceCounter>>}
    /\ ClaimAt(ST, 1, InitialPieceCounter).data = ClaimData({}, 7, TRUE)
    /\ meta_state(ST, Query("Verifiers", 1, InitialPieceCounter)).ev.verifiers = <<3>>

\* --------------------------------------------------------------- C11
\* C11: no stored claim has a zero issuer, a zero subject, a zero
\* issuer_signature, a zero key among its verifiers or a zero signature
\* stored for a verifier.
NoZeroStored ==
    Active =>
      \A sp \in Stored(ST) :
        LET claim == ClaimAt(ST, sp[1], sp[2])
        IN  /\ claim.issuer # ZERO_KEY
            /\ claim.subject # ZERO_KEY
            /\ claim.issuer_signature # ZERO_SIGNATURE
            /\ \A v \in DOMAIN claim.verifiers :
                 v # ZERO_KEY /\ claim.verifiers[v] # ZERO_SIGNATURE

\* A verified claim is stored and an IssueClaim with a zero argument was
\* just refused.
NoZeroStoredWitness ==
    /\ Active
    /\ last = [op |-> "IssueClaim", res |-> "InvalidKey", zero |-> TRUE]
    /\ \E sp \in Stored(ST) : DOMAIN ClaimAt(ST, sp[1], sp[2]).verifiers # {}

\* --------------------------------------------------------------- C12
\* C12: a claim stored under a <<subject, piece_id>> pair is stored under
\* that pair after every step, with the issuer, issuer_signature, subject,
\* hashed_info and issuance_date it was issued with.
Issuance(claim) ==
    <<claim.issuer, claim.issuer_signature, claim.subject,
      claim.data.hashed_info, claim.data.issuance_date>>

ClaimsPersist ==
    [][ (Len(IDENTITY) = 1 /\ IDENTITY' # IDENTITY) =>
          \A sp \in Stored(ST) :
            /\ sp \in Stored(IDENTITY'[1])
            /\ Issuance(ClaimAt(IDENTITY'[1], sp[1], sp[2]))
                 = Issuance(ClaimAt(ST, sp[1], sp[2])) ]_vars

\* Subject 1 holds two claims, issued one after the other, and a Claim
\* query on key 3 has run since.
ClaimsPersistWitness ==
    /\ Active
    /\ Stored(ST) = {<<1, 1>>, <<1, 2>>}
    /\ 3 \in DOMAIN ST.user_claims
    /\ last.op = "Claim"

\* --------------------------------------------------------------- C13
\* C13: no key among a stored claim's verifiers is that claim's issuer or
\* that claim's subject.
VerifiersAreThirdParties ==
    Active =>
      \A sp \in Stored(ST) :
        LET claim == ClaimAt(ST, sp[1], sp[2])
        IN  \A v \in DOMAIN claim.verifiers : v # claim.issuer /\ v # claim.subject

\* The claim of key 1 about key 2 is verified by key 3, and a verification
\* by its issuer or subject was just refused.
VerifiersAreThirdPartiesWitness ==
    /\ Active
    /\ last = [op |-> "VerifyClaim", res |-> "Unauthorized", zero |-> FALSE]
    /\ \E sp \in Stored(ST) :
         /\ ClaimAt(ST, sp[1], sp[2]).issuer # ClaimAt(ST, sp[1], sp[2]).subject
         /\ DOMAIN ClaimAt(ST, sp[1], sp[2]).verifiers = {3}

\* --------------------------------------------------------------- C14
\* C14: the hashed_info of every stored claim is the set given to the
\* IssueClaim that created it, whatever was processed since.
HashedInfoWriteOnce ==
    Active =>
      \A sp \in Stored(ST) :
        /\ sp \in DOMAIN issuedInfo
        /\ ClaimAt(ST, sp[1], sp[2]).data.hashed_info = issuedInfo[sp]

\* The claim issued with {1, 2} has been validated and verified, and a
\* second claim was issued after that.
HashedInfoWriteOnceWitness ==
    /\ Active
    /\ last = [op |-> "IssueClaim", res |-> "ok", zero |-> FALSE]
    /\ Len(issued) = 2
    /\ <<2, 1>> \in Stored(ST)
    /\ issuedInfo[<<2, 1>>] = {1, 2}
    /\ ClaimAt(ST, 2, 1).data.valid
    /\ DOMAIN ClaimAt(ST, 2, 1).verifiers # {}

\* --------------------------------------------------------------- C15
\* C15: on a <<pkey, piece_id>> pair with no claim, UserClaims of a key with
\* no claims replies the empty map, Claim replies the absent value, neither
\* ever fails, and ValidationStatus, Date and Verifiers fail with the
\* not-found outcome (unknown key, or known key and unknown piece id) and
\* reply nothing; on a stored pair they reply the stored value.
AbsentPolicy ==
    Active =>
      \A pkey \in PublicKey :
        /\ LET r == meta_state(ST, Query("UserClaims", pkey, 0))
           IN  /\ r.res = "ok"
               /\ (\A id \in PieceId : <<pkey, id>> \notin Stored(ST))
                    => r.ev = [type |-> "UserClaims", claims |-> EmptyMap]
        /\ \A piece_id \in PieceId :
             LET stored == <<pkey, piece_id>> \in Stored(ST)
                 claim  == meta_state(ST, Query("Claim", pkey, piece_id))
             IN  /\ claim.res = "ok"
                 /\ claim.ev = [type |-> "Claim",
                                claim |-> IF stored THEN <<ClaimAt(ST, pkey, piece_id)>>
                                          ELSE <<>>]
                 /\ \A type \in {"ValidationStatus", "Date", "Verifiers"} :
                      LET r == meta_state(ST, Query(type, pkey, piece_id))
                      IN  IF stored
                          THEN r.res = "ok" /\ r.ev.type = type
                          ELSE /\ r.ev = NoReply
                               /\ r.res = IF pkey \in DOMAIN ST.user_claims
                                          THEN "NoPiece" ELSE "NoClaims"

\* A claim is stored under key 1, a Date query on a piece id key 1 does not
\* have was just refused, and key 3 has no claims.
AbsentPolicyWitness ==
    /\ Active
    /\ last = [op |-> "Date", res |-> "NoPiece", zero |-> FALSE]
    /\ <<1, 1>> \in Stored(ST)
    /\ 3 \notin DOMAIN ST.user_claims

\* --------------------------------------------------------------- C16
\* C16: VerifyClaim by a key that is already among a claim's verifiers
\* succeeds; afterwards that key's signature is the new one, the set of
\* verifier keys is the same, and every other verifier's signature is the
\* one it was.
LastWriteWins ==
    Active =>
      \A sp \in Stored(ST) :
        LET verifiers == ClaimAt(ST, sp[1], sp[2]).verifiers
        IN  \A V \in DOMAIN verifiers, sig \in NonZeroSigs :
              LET r     == verify_claim(ST, V, sig, sp[1], sp[2])
                  after == ClaimAt(r.st, sp[1], sp[2]).verifiers
              IN  /\ r.res = "ok"
                  /\ r.ev = [type |-> "VerifiedClaim", verifier |-> V,
                             subject |-> sp[1], piece_id |-> sp[2]]
                  /\ after[V] = sig
                  /\ DOMAIN after = DOMAIN verifiers
                  /\ Cardinality(DOMAIN after) = Cardinality(DOMAIN verifiers)
                  /\ \A other \in DOMAIN verifiers \ {V} : after[other] = verifiers[other]

\* Key 3, already a verifier of a claim that key 2 has verified too, has
\* just verified it again, and the claim holds both keys' signatures.
LastWriteWinsWitness ==
    /\ Active
    /\ last = [op |-> "VerifyClaim", res |-> "ok", zero |-> FALSE]
    /\ repeat.again
    /\ \E sp \in Stored(ST) :
         ClaimAt(ST, sp[1], sp[2]).verifiers = MapInsert(MapInsert(EmptyMap, 2, 1), 3, 2)

\* --------------------------------------------------------------- C17
\* C17: ClaimValidationStatus, VerifyClaim and CheckClaim on a
\* <<subject, piece_id>> pair with no claim fail as not found; the outcome is
\* the one for an unknown subject exactly when no claim was ever issued for
\* the subject, and the one for an unknown piece id exactly when the subject
\* has a claim, whatever was processed before.
EverIssuedFor(subject) == \E sp \in DOMAIN issuedInfo : sp[1] = subject

NotFoundCause ==
    Active =>
      \A subject \in NonZeroKeys, piece_id \in PieceId :
        <<subject, piece_id>> \notin Stored(ST) =>
          LET cause == IF EverIssuedFor(subject) THEN "NoPiece" ELSE "NoClaims"
          IN  /\ \A validator \in NonZeroKeys, status \in BOOLEAN :
                   validation_status(ST, validator, subject, piece_id, status).res = cause
              /\ \A verifier \in NonZeroKeys, sig \in NonZeroSigs :
                   verify_claim(ST, verifier, sig, subject, piece_id).res = cause
              /\ \A hash \in Hash :
                   check_claim(ST, subject, piece_id, hash).res = cause

\* --------------------------------------------------------------- C18
\* C18: a ClaimValidationStatus that succeeds, sent again with the same
\* arguments, succeeds again with the same reply, and the ledger after the
\* second call is the ledger after the first.
StatusChangeIdempotent ==
    Active =>
      \A sp \in Stored(ST), validator \in NonZeroKeys, status \in BOOLEAN :
        LET once  == validation_status(ST, validator, sp[1], sp[2], status)
            twice == validation_status(once.st, validator, sp[1], sp[2], status)
        IN  once.res = "ok" =>
              /\ twice.res = "ok"
              /\ once.ev = [type |-> "ClaimValidationChanged", validator |-> validator,
                            subject |-> sp[1], piece_id |-> sp[2], status |-> status]
              /\ twice.ev = once.ev
              /\ twice.st = once.st
              /\ ClaimAt(twice.st, sp[1], sp[2]).data.valid = status

\* The last two messages were the same successful ClaimValidationStatus,
\* setting a claim valid.
StatusChangeIdempotentWitness ==
    /\ Active
    /\ last = [op |-> "ClaimValidationStatus", res |-> "ok", zero |-> FALSE]
    /\ repeat.again
    /\ repeat.req[4] = TRUE
    /\ ClaimAt(ST, repeat.req[2], repeat.req[3]).data.valid

\* --------------------------------------------------------------- C19
\* C19: a successful IssueClaim stores one more claim, with no verifiers,
\* leaves every claim stored before as it was and adds one to piece_counter;
\* a successful ClaimValidationStatus changes nothing but data.valid of the
\* addressed claim; a successful VerifyClaim changes nothing but the
\* verifiers of the addressed claim; CheckClaim changes nothing; and no call
\* or query other than a successful IssueClaim changes piece_counter.
IssueFrame ==
    \A issuer \in NonZeroKeys, sig \in NonZeroSigs, subject \in NonZeroKeys, data \in DataArgs :
      LET r      == issue_claim(ST, issuer, sig, subject, data)
          before == IF subject \in DOMAIN ST.user_claims
                    THEN ST.user_claims[subject] ELSE EmptyMap
          after  == r.st.user_claims[subject]
          added  == DOMAIN after \ DOMAIN before
      IN  /\ r.res = "ok"
          /\ DOMAIN r.st.user_claims = DOMAIN ST.user_claims \cup {subject}
          /\ \A other \in DOMAIN ST.user_claims \ {subject} :
               r.st.user_claims[other] = ST.user_claims[other]
          /\ \A id \in DOMAIN before : id \in DOMAIN after /\ after[id] = before[id]
          /\ Cardinality(added) = 1
          /\ \A id \in added : after[id].verifiers = EmptyMap
          /\ r.st.piece_counter = ST.piece_counter + 1
          /\ r.st.owner_id = ST.owner_id

StatusFrame ==
    \A sp \in Stored(ST), validator \in NonZeroKeys, status \in BOOLEAN :
      LET r == validation_status(ST, validator, sp[1], sp[2], status)
      IN  r.res = "ok" =>
            r.st = [ST EXCEPT !.user_claims[sp[1]][sp[2]].data.valid = status]

VerifyFrame ==
    \A sp \in Stored(ST), verifier \in NonZeroKeys, sig \in NonZeroSigs :
      LET r == verify_claim(ST, verifier, sig, sp[1], sp[2])
      IN  r.res = "ok" =>
            r.st = [ST EXCEPT !.user_claims[sp[1]][sp[2]].verifiers =
                                ClaimAt(r.st, sp[1], sp[2]).verifiers]

CheckFrame ==
    \A sp \in Stored(ST), hash \in Hash :
      LET r == check_claim(ST, sp[1], sp[2], hash)
      IN  r.res = "ok" /\ r.st = ST

FrameOfCalls == Active => IssueFrame /\ StatusFrame /\ VerifyFrame /\ CheckFrame

\* A step of an active program that changes piece_counter is a successful
\* IssueClaim, and it adds one.
CounterMovesOnlyByIssue ==
    (Active /\ IDENTITY' # IDENTITY /\ IDENTITY'[1].piece_counter # ST.piece_counter) =>
      /\ last' = [op |-> "IssueClaim", res |-> "ok", zero |-> FALSE]
      /\ IDENTITY'[1].piece_counter = ST.piece_counter + 1

FrameEffects == []FrameOfCalls /\ [][CounterMovesOnlyByIssue]_vars

\* Two claims are stored, one of them valid, and the other has just been
\* verified.
FrameEffectsWitness ==
    /\ Active
    /\ last = [op |-> "VerifyClaim", res |-> "ok", zero |-> FALSE]
    /\ Cardinality(Stored(ST)) = 2
    /\ \E sp \in Stored(ST) :
         ClaimAt(ST, sp[1], sp[2]).data.valid /\ ClaimAt(ST, sp[1], sp[2]).verifiers = EmptyMap
    /\ \E sp \in Stored(ST) :
         ~ClaimAt(ST, sp[1], sp[2]).data.valid /\ ClaimAt(ST, sp[1], sp[2]).verifiers # EmptyMap

\* --------------------------------------------------------------- C20
\* C20: the claim stored under subject s has s as its subject field, no
\* piece id is stored under two subjects, and the number of stored claims
\* is the number of IssueClaim calls that succeeded.
OneSubjectPerPiece ==
    Active =>
      /\ \A sp \in Stored(ST) : ClaimAt(ST, sp[1], sp[2]).subject = sp[1]
      /\ \A sp \in Stored(ST), other \in Stored(ST) : sp[2] = other[2] => sp[1] = other[1]
      /\ Cardinality(Stored(ST)) = Len(issued)
      /\ {sp[2] : sp \in Stored(ST)} = {issued[i] : i \in 1..Len(issued)}

\* Keys 1 and 2 hold one claim each, key 3 holds the empty map a Claim query
\* left, and a CheckClaim on a piece id of the other key was just refused.
OneSubjectPerPieceWitness ==
    /\ Active
    /\ {sp[1] : sp \in Stored(ST)} = {1, 2}
    /\ Len(issued) = 2
    /\ 3 \in DOMAIN ST.user_claims
    /\ last = [op |-> "CheckClaim", res |-> "NoPiece", zero |-> FALSE]

Expected(zero, stored, refused) ==
    IF zero THEN {"InvalidKey"}
    ELSE IF ~stored THEN NotFound
    ELSE IF refused THEN {"Unauthorized"}
    ELSE {"ok"}

FailureOrder ==
    Active =>
      LET stored == Stored(ST)
      IN  \A subject \in PublicKey, piece_id \in PieceId, key \in PublicKey :
            LET here  == <<subject, piece_id>> \in stored
                party == here /\ key \in {ClaimAt(ST, subject, piece_id).issuer,
                                          ClaimAt(ST, subject, piece_id).subject}
            IN  /\ \A status \in BOOLEAN :
                     validation_status(ST, key, subject, piece_id, status).res
                       \in Expected(ZERO_KEY \in {key, subject}, here, ~party)
                /\ \A sig \in Signature :
                     verify_claim(ST, key, sig, subject, piece_id).res
                       \in Expected(ZERO_KEY \in {key, subject} \/ sig = ZERO_SIGNATURE,
                                    here, party)

\* A VerifyClaim with a zero argument was just refused on a ledger with a
\* stored claim, on which the claim's issuer with a zero signature, a zero
\* validator, and a zero verifier on a missing piece id each fail twice over.
FailureOrderWitness ==
    /\ Active
    /\ last = [op |-> "VerifyClaim", res |-> "InvalidKey", zero |-> TRUE]
    /\ \E sp \in Stored(ST) :
         LET claim == ClaimAt(ST, sp[1], sp[2])
         IN  /\ verify_claim(ST, claim.issuer, ZERO_SIGNATURE, sp[1], sp[2]).res = "InvalidKey"
             /\ validation_status(ST, ZERO_KEY, sp[1], sp[2], TRUE).res = "InvalidKey"
             /\ <<sp[1], 0>> \notin Stored(ST)
             /\ verify_claim(ST, ZERO_KEY, 1, sp[1], 0).res = "InvalidKey"
             /\ verify_claim(ST, claim.issuer, 1, sp[1], 0).res = "NoPiece"

====
